---------------------------- MODULE Spec2Model ----------------------------
(***************************************************************************)
(* PollBotSH (src/main.py): a Telegram bot that keeps weekly poll          *)
(* schedules in schedule_config.json, rebuilds an APScheduler job set from *)
(* that file on every change, and collects new schedules through a         *)
(* button/free-text dialog.                                                *)
(*                                                                         *)
(* Conventions of the model                                                *)
(*  - A Python string that the program builds or takes apart around "_"    *)
(*    (callback data, schedule ids, job ids) is the sequence of its        *)
(*    "_"-separated fields: f"{a}_{b}" is <<a, b>>, s.split("_") is s,     *)
(*    s.startswith("del_") is Head(s) = "del".  No field the program puts  *)
(*    between underscores (day codes, day names, decimal numbers) contains *)
(*    an underscore itself.                                                *)
(*  - A free-text message is the sequence of its characters.               *)
(*  - A Python dict is a function from its keys; d.get(k) of a missing key *)
(*    (None) is tested with k \in DOMAIN d.                                *)
(*  - None where a list or a string is expected is <<>>: every place that  *)
(*    reads such a value ("x or y", "not x") treats None and the empty     *)
(*    value alike.                                                         *)
(***************************************************************************)
EXTENDS Integers, Sequences, FiniteSets, TLC

VARIABLES
    pc,       \* "boot" before main() runs, then "running", or "crashed"
    file,     \* schedule_config.json
    jobs,     \* the scheduler's jobs: job id -> job
    fsm,      \* MemoryStorage: user id -> [state, data]
    event,    \* the last inbound update delivered to the dispatcher
    reply,    \* what the bot sent in answer to it
    removed,  \* the records its update_config call dropped (<<>>: no call)
    arg,      \* argument of a function applied on its own
    ret       \* and its result

vars == <<pc, file, jobs, fsm, event, reply, removed, arg, ret>>

---------------------------------------------------------------------------
(* Program constants *)

DayCodes == <<"mon", "tue", "wed", "thu", "fri", "sat", "sun">>

\* The Russian day names, transliterated.  (The literal of src/main.py ends
\* in a doubled closing brace at line 63; the model takes the dict it spells.)
DAY_NAMES ==
    [mon |-> "Ponedelnik", tue |-> "Vtornik", wed |-> "Sreda",
     thu |-> "Chetverg", fri |-> "Pyatnitsa", sat |-> "Subbota",
     sun |-> "Voskresenye"]

HOURS_RANGE == 10..21

MINUTES_OPTIONS == {m \in 0..59 : m % 5 = 0}

ALLOWED_USER_IDS == {101}

EMPTY_CONFIG == [schedules |-> <<>>]

\* from_user is None: getattr(event.from_user, "id", None) gives None,
\* which the middleware tests only for truth, exactly as it would 0.
NoSender == 0

---------------------------------------------------------------------------
(* Bounds of the model: the inputs the environment draws from *)

\* Users who write to the bot (besides a sender-less update): the allowed
\* ones and an outsider.
Outsiders == {202}

UserIds == ALLOWED_USER_IDS \cup Outsiders

Senders == UserIds \cup {NoSender}

\* The chat the updates come from, and the messages buttons are pressed on.
ChatIds == {7000}

MessageIds == {1}

\* The send-day buttons the users press: the first NumSendDays of the week.
NumSendDays == 1

SendDays == {DayCodes[i] : i \in 1..NumSendDays}

PollDays == {DAY_NAMES["mon"]}

\* The hour and minute buttons the users press.
Hours == {10}

Minutes == {0}

\* The free texts the users send.
Texts ==
    { <<>>,                                  \* "" (or a message without text)
      <<"-">>,                               \* "-"
      <<"a", ";", " ", "b", ";", "a", " ">>, \* "a; b;a "
      <<" ", ";", " ">>,                     \* " ; "
      <<" ", "-", " ">> }                    \* " - "

---------------------------------------------------------------------------
(* Text: str.strip, str.split, str(n), int(s) *)

Digits == <<"0", "1", "2", "3", "4", "5", "6", "7", "8", "9">>

\* str(n) for 0 <= n <= 99
Str(n) ==
    IF n < 10 THEN Digits[n + 1]
    ELSE Digits[(n \div 10) + 1] \o Digits[(n % 10) + 1]

\* int(s) for the decimal strings of 0..99
ParseInt(s) == CHOOSE n \in 0..99 : Str(n) = s

RECURSIVE LStrip(_)
LStrip(s) == IF s # <<>> /\ Head(s) = " " THEN LStrip(Tail(s)) ELSE s

RECURSIVE RStrip(_)
RStrip(s) ==
    IF s # <<>> /\ s[Len(s)] = " " THEN RStrip(SubSeq(s, 1, Len(s) - 1)) ELSE s

\* str.lstrip in the place of str.strip
Strip_left(s) == LStrip(s)

Strip(s) == RStrip(LStrip(s))

\* s.split(sep): the pieces between the separators, the empty ones too.
RECURSIVE Split(_, _)
Split(s, sep) ==
    IF \E i \in 1..Len(s) : s[i] = sep
    THEN LET i == CHOOSE k \in 1..Len(s) :
                      s[k] = sep /\ \A j \in 1..(k - 1) : s[j] # sep
         IN  <<SubSeq(s, 1, i - 1)>> \o Split(SubSeq(s, i + 1, Len(s)), sep)
    ELSE <<s>>

---------------------------------------------------------------------------
(* JSON: json.dump / json.load of a config                                 *)
(* A JSON object is written as the sequence of its members <<key, value>>. *)

KeyOrder ==
    <<"id", "send_day", "poll_day", "hour", "minute", "edit_chat_id",
      "edit_message_id", "poll_title", "options", "extra_options">>

\* The members of dict d.
Items(d) ==
    LET keys == SelectSeq(KeyOrder, LAMBDA k : k \in DOMAIN d)
    IN  [i \in 1..Len(keys) |-> <<keys[i], d[keys[i]]>>]

\* The dict of a sequence of members; a repeated key keeps its last value.
Dict(members) ==
    [k \in {members[i][1] : i \in DOMAIN members} |->
        members[CHOOSE i \in DOMAIN members :
                    /\ members[i][1] = k
                    /\ \A j \in DOMAIN members : members[j][1] = k => j <= i][2]]

json_dump(cfg) ==
    << <<"schedules",
         [i \in DOMAIN cfg.schedules |-> Items(cfg.schedules[i])]>> >>

json_load(doc) ==
    LET top == Dict(doc)
    IN  IF "schedules" \in DOMAIN top
        THEN [schedules |->
                 [i \in DOMAIN top.schedules |-> Dict(top.schedules[i])]]
        ELSE top

---------------------------------------------------------------------------
(* The Store: schedule_config.json                                         *)
(* file.kind: "missing"; "not_json" (text json.load rejects); "not_utf8"   *)
(* (bytes the utf-8 decoder rejects); "json" (a JSON document, file.doc).  *)

FileMissing == [kind |-> "missing", doc |-> <<>>]
FileNotJson == [kind |-> "not_json", doc |-> <<>>]
FileNotUtf8 == [kind |-> "not_utf8", doc |-> <<>>]

\* load_config(): [exc, cfg].  json.JSONDecodeError and OSError are caught;
\* the utf-8 decoder's UnicodeDecodeError is neither.
load_config(f) ==
    CASE f.kind = "missing"  -> [exc |-> "", cfg |-> EMPTY_CONFIG]
      [] f.kind = "not_json" -> [exc |-> "", cfg |-> EMPTY_CONFIG]
      [] f.kind = "not_utf8" -> [exc |-> "UnicodeDecodeError", cfg |-> <<>>]
      [] OTHER               -> [exc |-> "", cfg |-> json_load(f.doc)]

\* save_config that writes an empty config whatever it is given
save_config_truncated(cfg) == [kind |-> "json", doc |-> json_dump(EMPTY_CONFIG)]

save_config(cfg) == [kind |-> "json", doc |-> json_dump(cfg)]

---------------------------------------------------------------------------
(* The scheduler *)

calculate_reminder_nowrap(hour, minute) ==
    <<hour - (IF minute < 5 THEN 1 ELSE 0), (minute - 5) % 60>>

calculate_reminder(hour, minute) ==
    <<(hour - (IF minute < 5 THEN 1 ELSE 0)) % 24, (minute - 5) % 60>>

JobKeys == {"id", "send_day", "poll_day", "hour", "minute"}

\* s.get("options") or s.get("extra_options")
PollOptions(s) ==
    IF "options" \in DOMAIN s /\ s["options"] # <<>> THEN s["options"]
    ELSE IF "extra_options" \in DOMAIN s THEN s["extra_options"]
    ELSE <<>>

PollJob(s) ==
    [func |-> "send_squash_poll", day_of_week |-> s["send_day"],
     hour |-> s["hour"], minute |-> s["minute"],
     args |-> <<s["poll_day"], PollOptions(s),
                IF "poll_title" \in DOMAIN s THEN s["poll_title"] ELSE <<>> >>]

\* A reminder moved to the day before when its hour wraps to 23
ReminderJob_day_before(s) ==
    LET r     == calculate_reminder(s["hour"], s["minute"])
        d     == CHOOSE i \in DOMAIN DayCodes : DayCodes[i] = s["send_day"]
        wraps == s["hour"] = 0 /\ s["minute"] < 5
    IN  [func |-> "send_reminder",
         day_of_week |-> IF wraps THEN DayCodes[((d + 5) % 7) + 1]
                         ELSE s["send_day"],
         hour |-> r[1], minute |-> r[2], args |-> <<>>]

ReminderJob(s) ==
    LET r == calculate_reminder(s["hour"], s["minute"])
    IN  [func |-> "send_reminder", day_of_week |-> s["send_day"],
         hour |-> r[1], minute |-> r[2], args |-> <<>>]

\* The loop of setup_scheduler over cfg["schedules"]: add_job with
\* replace_existing=True; a record without one of the keys it indexes
\* raises KeyError before its first add_job.
RECURSIVE AddJobs(_, _)
AddJobs(schedules, js) ==
    IF schedules = <<>> THEN [exc |-> "", jobs |-> js]
    ELSE LET s == Head(schedules)
         IN  IF ~ (JobKeys \subseteq DOMAIN s)
             THEN [exc |-> "KeyError", jobs |-> js]
             ELSE AddJobs(Tail(schedules),
                          ((<<"rem">> \o s["id"]) :> ReminderJob(s))
                          @@ ((<<"poll">> \o s["id"]) :> PollJob(s))
                          @@ js)

\* scheduler.remove_all_jobs()
remove_all_jobs(js) == <<>>

\* add_job without replace_existing: an id the scheduler holds raises
RECURSIVE AddJobs_conflict(_, _)
AddJobs_conflict(schedules, js) ==
    IF schedules = <<>> THEN [exc |-> "", jobs |-> js]
    ELSE LET s == Head(schedules)
         IN  IF ~ (JobKeys \subseteq DOMAIN s)
             THEN [exc |-> "KeyError", jobs |-> js]
             ELSE IF (<<"poll">> \o s["id"]) \in DOMAIN js
             THEN [exc |-> "ConflictingIdError", jobs |-> js]
             ELSE AddJobs_conflict(Tail(schedules),
                          ((<<"rem">> \o s["id"]) :> ReminderJob(s))
                          @@ ((<<"poll">> \o s["id"]) :> PollJob(s))
                          @@ js)

\* setup_scheduler that keeps the jobs it finds and adds without replacing
setup_scheduler_additive(f, js) ==
    LET l == load_config(f)
    IN  IF l.exc # "" THEN [exc |-> l.exc, jobs |-> js]
        ELSE IF "schedules" \notin DOMAIN l.cfg
        THEN [exc |-> "KeyError", jobs |-> js]
        ELSE AddJobs_conflict(l.cfg.schedules, js)

\* setup_scheduler() on the scheduler holding jobs js: [exc, jobs].
\* remove_all_jobs() comes first, so whatever raises afterwards leaves the
\* jobs added until then.
setup_scheduler(f, js) ==
    LET l == load_config(f)
    IN  IF l.exc # "" THEN [exc |-> l.exc, jobs |-> remove_all_jobs(js)]
        ELSE IF "schedules" \notin DOMAIN l.cfg
        THEN [exc |-> "KeyError", jobs |-> remove_all_jobs(js)]
        ELSE AddJobs(l.cfg.schedules, remove_all_jobs(js))

\* The filter of update_config giving the records it keeps last first
Without_reversed(schedules, schedule_id) ==
    LET kept == SelectSeq(schedules, LAMBDA s : s["id"] # schedule_id)
    IN  [i \in 1..Len(kept) |-> kept[Len(kept) + 1 - i]]

\* The filter of update_config left out
Without_keep(schedules, schedule_id) == schedules

\* cfg["schedules"] without the records of schedule_id
Without(schedules, schedule_id) ==
    SelectSeq(schedules, LAMBDA s : s["id"] # schedule_id)

\* update_config without its call of setup_scheduler()
update_config_norebuild(f, js, schedule_id, data) ==
    LET l == load_config(f)
    IN  IF l.exc # "" \/ "schedules" \notin DOMAIN l.cfg
        THEN [exc |-> "Error", file |-> f, jobs |-> js, removed |-> <<>>]
        ELSE LET kept  == Without(l.cfg.schedules, schedule_id)
                 saved == save_config(
                              [schedules |->
                                  IF data # <<>> THEN Append(kept, data)
                                  ELSE kept])
             IN  [exc |-> "", file |-> saved, jobs |-> js,
                  removed |-> SelectSeq(l.cfg.schedules,
                                  LAMBDA s : s["id"] = schedule_id)]

\* update_config that appends data without filtering the old records out
update_config_append(f, js, schedule_id, data) ==
    LET l == load_config(f)
    IN  IF l.exc # "" \/ "schedules" \notin DOMAIN l.cfg
        THEN [exc |-> "Error", file |-> f, jobs |-> js, removed |-> <<>>]
        ELSE LET saved == save_config(
                              [schedules |->
                                  IF data # <<>>
                                  THEN Append(l.cfg.schedules, data)
                                  ELSE l.cfg.schedules])
                 r     == setup_scheduler(saved, js)
             IN  [exc |-> r.exc, file |-> saved, jobs |-> r.jobs,
                  removed |-> SelectSeq(l.cfg.schedules,
                                  LAMBDA s : s["id"] = schedule_id)]

\* update_config(schedule_id, data): [exc, file, jobs, removed], removed
\* being the records the filter dropped.  data = <<>> is None
\* (or any falsy data).  The file is written, then setup_scheduler() runs.
update_config(f, js, schedule_id, data) ==
    LET l == load_config(f)
    IN  IF l.exc # "" \/ "schedules" \notin DOMAIN l.cfg
        THEN [exc |-> "Error", file |-> f, jobs |-> js, removed |-> <<>>]
        ELSE LET kept  == Without(l.cfg.schedules, schedule_id)
                 saved == save_config(
                              [schedules |->
                                  IF data # <<>> THEN Append(kept, data)
                                  ELSE kept])
                 r     == setup_scheduler(saved, js)
             IN  [exc |-> r.exc, file |-> saved, jobs |-> r.jobs,
                  removed |-> SelectSeq(l.cfg.schedules,
                                  LAMBDA s : s["id"] = schedule_id)]

---------------------------------------------------------------------------
(* Views of the state *)

\* The records of the Store, as load_config() returns them.
Records(f) ==
    LET l == load_config(f)
    IN  IF l.exc = "" /\ "schedules" \in DOMAIN l.cfg
        THEN l.cfg.schedules ELSE <<>>

Ids(f) == {Records(f)[i]["id"] : i \in DOMAIN Records(f)}

NoSession == [state |-> "None", data |-> <<>>]

NoEvent ==
    [type |-> "none", from |-> NoSender, chat |-> 0, msg |-> 0,
     text |-> <<>>, data |-> <<>>]

NoReply == [via |-> "none", msg |-> 0, text |-> <<>>, kb |-> {}]

---------------------------------------------------------------------------
(* Files main() may find *)

LegacyRecord ==
    [id |-> <<"tue", DAY_NAMES["mon"]>>, send_day |-> "tue",
     poll_day |-> DAY_NAMES["mon"], hour |-> 0, minute |-> 2,
     extra_options |-> << <<"y">>, <<"n">> >>]

OldRecord(minute) ==
    [id |-> <<"mon", DAY_NAMES["mon"]>>, send_day |-> "mon",
     poll_day |-> DAY_NAMES["mon"], hour |-> 21, minute |-> minute,
     edit_chat_id |-> 7000, edit_message_id |-> 1,
     poll_title |-> <<"o">>, options |-> << <<"y">>, <<"n">> >>]

\* {}: JSON, but no config
FileNoSchedules == [kind |-> "json", doc |-> <<>>]

\* A file of an earlier version, and one edited by hand that repeats an id
FileLegacy == save_config([schedules |-> <<LegacyRecord>>])

FileRepeatedId ==
    save_config([schedules |-> <<OldRecord(55), LegacyRecord, OldRecord(0)>>])

InitialFiles ==
    {FileMissing, FileNotJson, FileNotUtf8, FileNoSchedules, FileLegacy,
     FileRepeatedId}

---------------------------------------------------------------------------
(* Start of the process *)

Init ==
    /\ pc = "boot"
    /\ file \in InitialFiles
    /\ jobs = <<>>
    /\ fsm = [u \in UserIds |-> NoSession]
    /\ event = NoEvent
    /\ reply = NoReply
    /\ removed = <<>>
    /\ arg = <<>>
    /\ ret = <<>>

\* main(): setup_scheduler(), scheduler.start(), start_polling.  An
\* exception of setup_scheduler ends the process.
Main ==
    /\ pc = "boot"
    /\ LET r == setup_scheduler(file, jobs)
       IN  /\ jobs' = r.jobs
           /\ pc' = IF r.exc = "" THEN "running" ELSE "crashed"
    /\ UNCHANGED <<file, fsm, event, reply, removed, arg, ret>>

---------------------------------------------------------------------------
(* Keyboards: the callback data of the buttons *)

\* hour=None of kb_time and choose_hour
NoHour == -1

kb_days(prefix, back) ==
    {prefix \o <<DayCodes[i]>> : i \in DOMAIN DayCodes}
        \cup (IF back # <<>> THEN {back} ELSE {})

kb_poll_days(send_day) ==
    {<<"poll", send_day, DAY_NAMES[DayCodes[i]]>> : i \in DOMAIN DayCodes}
        \cup {<<"back", "send">>}

kb_time(send_day, poll_day, hour) ==
    (IF hour = NoHour
     THEN {<<"hour", send_day, poll_day, Str(h)>> : h \in HOURS_RANGE}
     ELSE {<<"time", send_day, poll_day, Str(hour), Str(m)>> :
               m \in MINUTES_OPTIONS}
          \cup {<<"hour", send_day, poll_day>>})
        \cup {<<"back", "poll", send_day>>}

kb_back_to_time(send_day, poll_day, hour) ==
    {<<"back", "time", send_day, poll_day, Str(hour)>>}

kb_back_to_title == {<<"back", "title", "input">>}

\* The keyboard of remove_days
kb_remove(schedules) ==
    {<<"del">> \o schedules[i]["id"] : i \in DOMAIN schedules}
        \cup {<<"back", "main">>}

(* Texts of the bot's messages, by what they show *)

send_day_selected_text(send_day) == <<"send_day_selected", DAY_NAMES[send_day]>>

hour_selected_text(send_day, poll_day, hour) ==
    <<"hour_selected", DAY_NAMES[send_day], poll_day,
      IF hour = NoHour THEN "None" ELSE Str(hour)>>

Answer(text, kb) == [via |-> "answer", msg |-> 0, text |-> text, kb |-> kb]

EditText(msg, text, kb) == [via |-> "edit", msg |-> msg, text |-> text, kb |-> kb]

---------------------------------------------------------------------------
(* Inbound updates *)

MessageFrom(u, c, text) ==
    [type |-> "message", from |-> u, chat |-> c, msg |-> 0,
     text |-> text, data |-> <<>>]

CallbackFrom(u, c, m, data) ==
    [type |-> "callback", from |-> u, chat |-> c, msg |-> m,
     text |-> <<>>, data |-> data]

\* Schedule ids of the day pairs of the model, and of the files main() finds
DayPairIds == {<<sd, pd>> : sd \in SendDays, pd \in PollDays}

KnownIds == DayPairIds \cup UNION {Ids(f) : f \in InitialFiles}

\* The buttons the users press.  The chat keeps every keyboard the bot has
\* ever sent, those of earlier runs of the process too, so a button of any
\* keyboard the bot renders can be pressed at any time.
Buttons ==
    {b \in kb_days(<<"send">>, <<>>) : b[2] \in SendDays}
    \cup UNION {{b \in kb_poll_days(sd) : Len(b) = 2 \/ b[3] \in PollDays} :
                    sd \in SendDays}
    \cup UNION {{b \in kb_time(sd, pd, NoHour) :
                     b[1] = "hour" => ParseInt(b[4]) \in Hours} :
                    sd \in SendDays, pd \in PollDays}
    \cup UNION {{b \in kb_time(sd, pd, h) :
                     b[1] = "time" => ParseInt(b[5]) \in Minutes} :
                    sd \in SendDays, pd \in PollDays, h \in Hours}
    \cup UNION {kb_back_to_time(sd, pd, h) :
                    sd \in SendDays, pd \in PollDays, h \in Hours}
    \cup kb_back_to_title
    \cup {<<"del">> \o id : id \in KnownIds}
    \cup {<<"back", "main">>}

\* The outsider tries the buttons of the first send day that write to the
\* session or the Store, and one that only renders; and sends one text.
OutsiderButtons ==
    {b \in Buttons :
        \/ b[1] \in {"time", "del"} /\ b[2] = DayCodes[1]
        \/ b \in kb_back_to_title
        \/ SubSeq(b, 1, 2) = <<"back", "time">> /\ b[3] = DayCodes[1]
        \/ b = <<"back", "main">>}

OutsiderTexts == {<<"a", ";", " ", "b", ";", "a", " ">>}

TextsOf(u) == IF u \in Outsiders THEN OutsiderTexts ELSE Texts

ButtonsOf(u) == IF u \in Outsiders THEN OutsiderButtons ELSE Buttons

StartsWith(data, prefix) ==
    Len(data) > Len(prefix) /\ SubSeq(data, 1, Len(prefix)) = prefix

---------------------------------------------------------------------------
(* AccessMiddleware *)

\* if user_id and user_id not in ALLOWED_USER_IDS
AccessDenied(user_id) ==
    user_id # NoSender /\ user_id \notin ALLOWED_USER_IDS

Denial(ev) ==
    [via |-> IF ev.type = "callback" THEN "alert" ELSE "answer",
     msg |-> 0, text |-> <<"NO_ACCESS">>, kb |-> {}]

\* A handler that does not call update_config
NoUpdate == removed' = <<>> /\ UNCHANGED <<file, jobs>>

\* AccessMiddleware.__call__ around the handler the filters chose.
Deliver(ev, Handler) ==
    /\ pc = "running"
    /\ event' = ev
    /\ IF AccessDenied(ev.from)
       THEN /\ reply' = Denial(ev)
            /\ NoUpdate /\ UNCHANGED fsm
       ELSE Handler
    /\ UNCHANGED <<pc, arg, ret>>

---------------------------------------------------------------------------
(* FSMContext *)

set_state(session, state) == [session EXCEPT !.state = state]

update_data(session, kw) == [session EXCEPT !.data = kw @@ session.data]

---------------------------------------------------------------------------
(* Command handlers *)

IsCommand(text, name) == text # <<>> /\ Head(text) = name

start ==
    \E u \in Senders, c \in ChatIds :
        Deliver(MessageFrom(u, c, <<"/start">>),
                /\ reply' = Answer(<<"hello", "MAIN_COMMANDS_TEXT">>, {})
                /\ NoUpdate /\ UNCHANGED fsm)

set_days ==
    \E u \in Senders, c \in ChatIds :
        Deliver(MessageFrom(u, c, <<"/set_days">>),
                /\ reply' = Answer(<<"SELECT_SEND_DAY_TEXT">>,
                                   kb_days(<<"send">>, <<>>))
                /\ NoUpdate /\ UNCHANGED fsm)

list_days ==
    \E u \in Senders, c \in ChatIds :
        Deliver(MessageFrom(u, c, <<"/list_days">>),
                /\ reply' =
                      IF Records(file) = <<>>
                      THEN Answer(<<"no_schedules">>, {})
                      ELSE Answer(<<"schedules", Str(Len(Records(file)))>>, {})
                /\ NoUpdate /\ UNCHANGED fsm)

remove_days ==
    \E u \in Senders, c \in ChatIds :
        Deliver(MessageFrom(u, c, <<"/remove_days">>),
                /\ reply' =
                      IF Records(file) = <<>>
                      THEN Answer(<<"no_schedules">>, {})
                      ELSE Answer(<<"choose_schedule">>,
                                  kb_remove(Records(file)))
                /\ NoUpdate /\ UNCHANGED fsm)

---------------------------------------------------------------------------
(* Callback handlers: the stateless steps of the dialog *)

\* f"{n:02d}"
Pad2(n) == IF n < 10 THEN "0" \o Str(n) ELSE Str(n)

Press(Filter(_), Handler(_, _)) ==
    \E u \in UserIds, c \in ChatIds, m \in MessageIds :
        \E data \in ButtonsOf(u) :
            /\ Filter(data)
            /\ Deliver(CallbackFrom(u, c, m, data),
                       Handler(u, CallbackFrom(u, c, m, data)))

Render(r) ==
    /\ reply' = r
    /\ NoUpdate /\ UNCHANGED fsm

back_to_send_day ==
    Press(LAMBDA data : data = <<"back", "send">>,
          LAMBDA u, cb :
              Render(EditText(cb.msg, <<"SELECT_SEND_DAY_TEXT">>,
                              kb_days(<<"send">>, <<>>))))

back_to_poll_day ==
    Press(LAMBDA data : StartsWith(data, <<"back", "poll">>),
          LAMBDA u, cb :
              LET send_day == cb.data[3]
              IN  Render(EditText(cb.msg, send_day_selected_text(send_day),
                                  kb_poll_days(send_day))))

back_to_main ==
    Press(LAMBDA data : data = <<"back", "main">>,
          LAMBDA u, cb : Render(EditText(cb.msg, <<"MAIN_COMMANDS_TEXT">>, {})))

choose_send ==
    Press(LAMBDA data : StartsWith(data, <<"send">>),
          LAMBDA u, cb :
              LET send_day == cb.data[2]
              IN  Render(EditText(cb.msg, send_day_selected_text(send_day),
                                  kb_poll_days(send_day))))

choose_poll ==
    Press(LAMBDA data : StartsWith(data, <<"poll">>),
          LAMBDA u, cb :
              LET send_day == cb.data[2]
                  poll_day == cb.data[3]
              IN  Render(EditText(cb.msg,
                                  <<"choose_hour", DAY_NAMES[send_day], poll_day>>,
                                  kb_time(send_day, poll_day, NoHour))))

choose_hour ==
    Press(LAMBDA data : StartsWith(data, <<"hour">>),
          LAMBDA u, cb :
              LET parts    == cb.data
                  send_day == parts[2]
                  poll_day == parts[3]
                  hour     == IF Len(parts) > 3 THEN ParseInt(parts[4])
                              ELSE NoHour
              IN  Render(EditText(cb.msg,
                                  hour_selected_text(send_day, poll_day, hour),
                                  kb_time(send_day, poll_day, hour))))

---------------------------------------------------------------------------
(* The stateful steps of the dialog *)

choose_time ==
    Press(LAMBDA data : StartsWith(data, <<"time">>) /\ Len(data) = 5,
          LAMBDA u, cb :
              LET send_day == cb.data[2]
                  poll_day == cb.data[3]
                  hour     == cb.data[4]
                  minute   == cb.data[5]
              IN  /\ fsm' = [fsm EXCEPT ![u] =
                        set_state(
                            update_data(@,
                                [send_day |-> send_day, poll_day |-> poll_day,
                                 hour |-> ParseInt(hour),
                                 minute |-> ParseInt(minute),
                                 edit_chat_id |-> cb.chat,
                                 edit_message_id |-> cb.msg]),
                            "waiting_for_title")]
                  /\ reply' = EditText(cb.msg,
                                  <<"enter_title", DAY_NAMES[send_day], poll_day,
                                    Pad2(ParseInt(hour)), Pad2(ParseInt(minute))>>,
                                  kb_back_to_time(send_day, poll_day,
                                                  ParseInt(hour)))
                  /\ NoUpdate)

title_input ==
    \E u \in UserIds, c \in ChatIds, text \in Texts :
        /\ fsm[u].state = "waiting_for_title"
        /\ Deliver(MessageFrom(u, c, text),
               LET poll_title == Strip(text)
                   data       == fsm[u].data
                   prompt     == <<"enter_options">>
               IN  IF poll_title = <<>> \/ poll_title = <<"-">>
                   THEN /\ reply' = Answer(<<"title_required">>, {})
                        /\ NoUpdate /\ UNCHANGED fsm
                   ELSE /\ fsm' = [fsm EXCEPT ![u] =
                               set_state(
                                   update_data(@, [poll_title |-> poll_title]),
                                   "waiting_for_options")]
                        \* bot.edit_message_text, or message.answer when it
                        \* raises (the message is gone, the transport fails)
                        /\ \/ /\ "edit_message_id" \in DOMAIN data
                              /\ reply' = EditText(data["edit_message_id"],
                                                   prompt, kb_back_to_title)
                           \/ reply' = Answer(prompt, kb_back_to_title)
                        /\ NoUpdate)

back_to_time ==
    Press(LAMBDA data : StartsWith(data, <<"back", "time">>) /\ Len(data) = 5,
          LAMBDA u, cb :
              LET send_day == cb.data[3]
                  poll_day == cb.data[4]
                  hour_int == ParseInt(cb.data[5])
              IN  /\ fsm' = [fsm EXCEPT ![u] = NoSession]
                  /\ reply' = EditText(cb.msg,
                                  hour_selected_text(send_day, poll_day, hour_int),
                                  kb_time(send_day, poll_day, hour_int))
                  /\ NoUpdate)

\* back_to_title_input without its fallback for an empty session
back_to_title_input_nofallback ==
    Press(LAMBDA data : data = <<"back", "title", "input">>,
          LAMBDA u, cb :
              /\ fsm' = [fsm EXCEPT ![u] =
                     set_state(
                         update_data(@,
                             [edit_chat_id |-> cb.chat,
                              edit_message_id |-> cb.msg]),
                         "waiting_for_title")]
              /\ reply' = EditText(cb.msg, <<"enter_title_again">>, {})
              /\ NoUpdate)

back_to_title_input ==
    Press(LAMBDA data : data = <<"back", "title", "input">>,
          LAMBDA u, cb :
              LET data == fsm[u].data
              IN  IF ~ ({"send_day", "poll_day", "hour"} \subseteq DOMAIN data)
                  THEN /\ fsm' = [fsm EXCEPT ![u] = NoSession]
                       /\ reply' = EditText(cb.msg, <<"SELECT_SEND_DAY_TEXT">>,
                                            kb_days(<<"send">>, <<>>))
                       /\ NoUpdate
                  ELSE /\ fsm' = [fsm EXCEPT ![u] =
                              set_state(
                                  update_data(@,
                                      [edit_chat_id |-> cb.chat,
                                       edit_message_id |-> cb.msg]),
                                  "waiting_for_title")]
                       /\ reply' = EditText(cb.msg,
                                       <<"enter_title_again", Pad2(data["hour"]),
                                         Pad2(IF "minute" \in DOMAIN data
                                              THEN data["minute"] ELSE 0)>>,
                                       kb_back_to_time(data["send_day"],
                                                       data["poll_day"],
                                                       data["hour"]))
                       /\ NoUpdate)

\* The comprehension without its "if o.strip()"
ParseOptions_keep_empty(text) ==
    LET pieces == Split(text, ";")
    IN  [i \in 1..Len(pieces) |-> Strip(pieces[i])]

\* The comprehension keeping o instead of o.strip()
ParseOptions_untrimmed(text) ==
    SelectSeq(Split(text, ";"), LAMBDA o : Strip(o) # <<>>)

\* [o.strip() for o in (message.text or "").split(";") if o.strip()]
ParseOptions(text) ==
    LET pieces == Split(text, ";")
        kept   == SelectSeq(pieces, LAMBDA o : Strip(o) # <<>>)
    IN  [i \in 1..Len(kept) |-> Strip(kept[i])]

\* if len(options) < 1
TooFewOptions_one(options) == Len(options) < 1

\* if len(options) < 2
TooFewOptions(options) == Len(options) < 2

\* {"id": schedule_id, **data, "options": options}
NewRecord(schedule_id, data, options) ==
    [options |-> options] @@ data @@ [id |-> schedule_id]

options_input ==
    \E u \in UserIds, c \in ChatIds, text \in Texts :
        /\ fsm[u].state = "waiting_for_options"
        /\ Deliver(MessageFrom(u, c, text),
               LET options == ParseOptions(text)
                   data    == fsm[u].data
               IN  IF TooFewOptions(options)
                   THEN /\ reply' = Answer(<<"two_options_required">>, {})
                        /\ NoUpdate /\ UNCHANGED fsm
                   ELSE IF ~ ({"send_day", "poll_day"} \subseteq DOMAIN data)
                   THEN \* KeyError: the dispatcher logs it
                        /\ reply' = NoReply
                        /\ NoUpdate /\ UNCHANGED fsm
                   ELSE LET schedule_id == <<data["send_day"], data["poll_day"]>>
                            r == update_config(file, jobs, schedule_id,
                                     NewRecord(schedule_id, data, options))
                        IN  /\ file' = r.file
                            /\ jobs' = r.jobs
                            /\ removed' = r.removed
                            /\ IF r.exc # ""
                               THEN /\ reply' = NoReply
                                    /\ UNCHANGED fsm
                               ELSE /\ fsm' = [fsm EXCEPT ![u] = NoSession]
                                    /\ reply' = Answer(
                                           <<"created", data["poll_day"],
                                             DAY_NAMES[data["send_day"]],
                                             Pad2(data["hour"]),
                                             Pad2(data["minute"])>>, {}))

delete_schedule ==
    Press(LAMBDA data : StartsWith(data, <<"del">>),
          LAMBDA u, cb :
              LET schedule_id == Tail(cb.data)
                  r == update_config(file, jobs, schedule_id, <<>>)
              IN  /\ file' = r.file
                  /\ jobs' = r.jobs
                  /\ removed' = r.removed
                  /\ reply' = IF r.exc # "" THEN NoReply
                              ELSE EditText(cb.msg, <<"deleted">>, {})
                  /\ UNCHANGED fsm)

\* A text that is no command, from a user whose session is in neither
\* state: no filter matches, so neither handler nor middleware runs and the
\* dispatcher drops the update.
unhandled ==
    \E u \in UserIds, c \in ChatIds :
      \E text \in TextsOf(u) :
        /\ pc = "running"
        /\ fsm[u].state \notin {"waiting_for_title", "waiting_for_options"}
        /\ event' = MessageFrom(u, c, text)
        /\ reply' = NoReply
        /\ NoUpdate
        /\ UNCHANGED <<fsm, pc, arg, ret>>

Next ==
    \/ Main
    \/ start
    \/ set_days
    \/ list_days
    \/ remove_days
    \/ back_to_send_day
    \/ back_to_poll_day
    \/ back_to_main
    \/ choose_send
    \/ choose_poll
    \/ choose_hour
    \/ choose_time
    \/ title_input
    \/ back_to_time
    \/ back_to_title_input
    \/ options_input
    \/ delete_schedule
    \/ unhandled

Spec == Init /\ [][Next]_vars

\* The process started on a Store without a repeated id
CleanInit == Init /\ file \in {FileMissing, FileNotJson, FileLegacy}

CleanSpec == CleanInit /\ [][Next]_vars

\* The process started on an empty Store
FreshInit == Init /\ file \in {FileMissing, FileNotJson}

FreshSpec == FreshInit /\ [][Next]_vars

---------------------------------------------------------------------------
(* calculate_reminder applied on its own *)

ReminderInit ==
    /\ pc = "call"
    /\ arg \in (0..23) \X (0..59)
    /\ ret = <<>>
    /\ file = FileMissing
    /\ jobs = <<>>
    /\ fsm = [u \in UserIds |-> NoSession]
    /\ event = NoEvent
    /\ reply = NoReply
    /\ removed = <<>>

CallReminder ==
    /\ pc = "call"
    /\ ret' = calculate_reminder(arg[1], arg[2])
    /\ pc' = "return"
    /\ UNCHANGED <<file, jobs, fsm, event, reply, removed, arg>>

ReminderNext == CallReminder

ReminderSpec == ReminderInit /\ [][ReminderNext]_vars

---------------------------------------------------------------------------
(* send_squash_poll applied on its own: what a firing poll job does *)

\* f"... {day_name}?": the question of a poll without a title
FallbackQuestion(day_name) == <<"squash_on", day_name, "?">>

\* send_squash_poll without its guard
send_squash_poll_unguarded(day_name, options, poll_title) ==
    [exc |-> "", warnings |-> 0,
     polls |-> << [chat_id |-> "GROUP_ID",
                   question |-> IF poll_title # <<>> THEN poll_title
                                ELSE FallbackQuestion(day_name),
                   options |-> options, is_anonymous |-> FALSE] >>]

\* send_squash_poll(day_name, options, poll_title): the warnings logged and
\* the polls handed to bot.send_poll.
send_squash_poll(day_name, options, poll_title) ==
    IF options = <<>> \/ Len(options) < 2
    THEN [exc |-> "", warnings |-> 1, polls |-> <<>>]
    ELSE [exc |-> "", warnings |-> 0,
          polls |-> << [chat_id |-> "GROUP_ID",
                        question |-> IF poll_title # <<>> THEN poll_title
                                     ELSE FallbackQuestion(day_name),
                        options |-> options, is_anonymous |-> FALSE] >>]

\* The args of the poll jobs: options of none to three entries, with a
\* title and without.
FiredOptions ==
    {<<>>, << <<"y">> >>, << <<"y">>, <<"n">> >>,
     << <<"y">>, <<"n">>, <<"y">> >>}

FiredTitles == {<<>>, <<"o">>}

PollInit ==
    /\ pc = "fire"
    /\ arg \in {DAY_NAMES[DayCodes[i]] : i \in DOMAIN DayCodes}
                   \X FiredOptions \X FiredTitles
    /\ ret = <<>>
    /\ file = FileMissing
    /\ jobs = <<>>
    /\ fsm = [u \in UserIds |-> NoSession]
    /\ event = NoEvent
    /\ reply = NoReply
    /\ removed = <<>>

FirePoll ==
    /\ pc = "fire"
    /\ ret' = send_squash_poll(arg[1], arg[2], arg[3])
    /\ pc' = "fired"
    /\ UNCHANGED <<file, jobs, fsm, event, reply, removed, arg>>

PollNext == FirePoll

PollSpec == PollInit /\ [][PollNext]_vars

---------------------------------------------------------------------------
(* The event loop: handlers and job callbacks as tasks that give way to    *)
(* each other at their awaits.  Every await of options_input and           *)
(* delete_schedule is taken as a point where another task may run; the     *)
(* code between two awaits runs without interruption.  Here pc and arg     *)
(* are functions of the task.                                              *)

\* The sessions that wait for the options: the data choose_time and
\* title_input have stored.
LoopSessions ==
    {[state |-> "waiting_for_options",
      data  |-> [send_day |-> sd, poll_day |-> pd, hour |-> h, minute |-> m,
                 edit_chat_id |-> c, edit_message_id |-> mid,
                 poll_title |-> <<"o">>]] :
        sd \in SendDays, pd \in PollDays, h \in Hours, m \in Minutes,
        c \in ChatIds, mid \in MessageIds}

LoopUser == CHOOSE u \in ALLOWED_USER_IDS : TRUE

LoopInit ==
    /\ pc = [options_input |-> "idle", delete_schedule |-> "idle"]
    /\ arg = [options_input |-> <<>>, delete_schedule |-> <<>>]
    /\ file \in {FileMissing, FileLegacy, FileRepeatedId}
    /\ jobs = setup_scheduler(file, <<>>).jobs
    /\ fsm = [u \in UserIds |-> NoSession]
    /\ event = NoEvent
    /\ reply = NoReply
    /\ removed = <<>>
    /\ ret = <<>>

\* choose_time and title_input have brought the session to the options.
LoopDialog ==
    /\ fsm[LoopUser].state = "None"
    /\ \E session \in LoopSessions :
           fsm' = [fsm EXCEPT ![LoopUser] = session]
    /\ UNCHANGED <<pc, arg, file, jobs, event, reply, removed, ret>>

\* options_input up to "data = await state.get_data()"
LoopOptionsReceived ==
    /\ pc.options_input = "idle"
    /\ fsm[LoopUser].state = "waiting_for_options"
    /\ \E text \in Texts :
           /\ ~ TooFewOptions(ParseOptions(text))
           /\ arg' = [arg EXCEPT !.options_input =
                         [options |-> ParseOptions(text)]]
    /\ pc' = [pc EXCEPT !.options_input = "get_data"]
    /\ UNCHANGED <<file, jobs, fsm, event, reply, removed, ret>>

\* The same stretch giving way between save_config and setup_scheduler
LoopOptionsCommit_yielding ==
    LET data        == fsm[LoopUser].data
        schedule_id == <<data["send_day"], data["poll_day"]>>
    IN  \/ /\ pc.options_input = "get_data"
           /\ LET r == update_config_norebuild(file, jobs, schedule_id,
                           NewRecord(schedule_id, data,
                                     arg.options_input.options))
              IN  /\ file' = r.file
                  /\ removed' = r.removed
           /\ pc' = [pc EXCEPT !.options_input = "setup_scheduler"]
           /\ UNCHANGED <<arg, jobs, fsm, event, reply, ret>>
        \/ /\ pc.options_input = "setup_scheduler"
           /\ jobs' = setup_scheduler(file, jobs).jobs
           /\ pc' = [pc EXCEPT !.options_input = "clear"]
           /\ UNCHANGED <<arg, file, fsm, event, reply, removed, ret>>

\* ... from there to "await state.clear()": update_config runs whole
LoopOptionsCommit ==
    /\ pc.options_input = "get_data"
    /\ LET data        == fsm[LoopUser].data
           schedule_id == <<data["send_day"], data["poll_day"]>>
           r == update_config(file, jobs, schedule_id,
                    NewRecord(schedule_id, data, arg.options_input.options))
       IN  /\ file' = r.file
           /\ jobs' = r.jobs
           /\ removed' = r.removed
    /\ pc' = [pc EXCEPT !.options_input = "clear"]
    /\ UNCHANGED <<arg, fsm, event, reply, ret>>

\* ... state.clear() and message.answer(text)
LoopOptionsClear ==
    /\ pc.options_input = "clear"
    /\ fsm' = [fsm EXCEPT ![LoopUser] = NoSession]
    /\ reply' = Answer(<<"created">>, {})
    /\ pc' = [pc EXCEPT !.options_input = "idle"]
    /\ UNCHANGED <<arg, file, jobs, event, removed, ret>>

\* delete_schedule up to "await callback.message.edit_text(...)":
\* update_config runs whole
LoopDelete ==
    /\ pc.delete_schedule = "idle"
    /\ \E schedule_id \in KnownIds :
           LET r == update_config(file, jobs, schedule_id, <<>>)
           IN  /\ file' = r.file
               /\ jobs' = r.jobs
               /\ removed' = r.removed
               /\ arg' = [arg EXCEPT !.delete_schedule = schedule_id]
    /\ pc' = [pc EXCEPT !.delete_schedule = "edit_text"]
    /\ UNCHANGED <<fsm, event, reply, ret>>

\* ... edit_text and callback.answer()
LoopDeleteAnswer ==
    /\ pc.delete_schedule = "edit_text"
    /\ reply' = EditText(0, <<"deleted">>, {})
    /\ pc' = [pc EXCEPT !.delete_schedule = "idle"]
    /\ UNCHANGED <<arg, file, jobs, fsm, event, removed, ret>>

\* list_days, whole: it reads the Store between two steps of the others.
LoopList ==
    /\ ret' = [seen |-> "store", ids |-> Ids(file)]
    /\ UNCHANGED <<pc, arg, file, jobs, fsm, event, reply, removed>>

\* A job of the scheduler fires between two steps of the others.
LoopFire ==
    /\ \E j \in DOMAIN jobs :
           ret' = [seen |-> "job", id |-> j, job |-> jobs[j],
                   out |-> IF jobs[j].func = "send_squash_poll"
                           THEN send_squash_poll(jobs[j].args[1],
                                    jobs[j].args[2], jobs[j].args[3])
                           ELSE <<"reminder">>]
    /\ UNCHANGED <<pc, arg, file, jobs, fsm, event, reply, removed>>

LoopNext ==
    \/ LoopDialog
    \/ LoopOptionsReceived
    \/ LoopOptionsCommit
    \/ LoopOptionsClear
    \/ LoopDelete
    \/ LoopDeleteAnswer
    \/ LoopList
    \/ LoopFire

LoopSpec == LoopInit /\ [][LoopNext]_vars

---------------------------------------------------------------------------
(* setup_scheduler applied twice in a row on the same file *)

\* The files the rebuild reads: those main() may find, and configs of up to
\* two records.
RebuildRecords == {LegacyRecord, OldRecord(0), OldRecord(3), OldRecord(55)}

RebuildFiles ==
    InitialFiles
        \cup {save_config([schedules |-> <<r>>]) : r \in RebuildRecords}
        \cup {save_config([schedules |-> <<r1, r2>>]) :
                  r1 \in RebuildRecords, r2 \in RebuildRecords}

\* The jobs the scheduler holds before: none, those of another file, and a
\* job of a record that is gone.
StaleJob ==
    [func |-> "send_squash_poll", day_of_week |-> "sun", hour |-> 12,
     minute |-> 30, args |-> <<DAY_NAMES["sun"], <<>>, <<>> >>]

JobsBefore ==
    {<<>>,
     setup_scheduler(FileLegacy, <<>>).jobs,
     setup_scheduler(FileRepeatedId, <<>>).jobs,
     (<<"poll", "sun", DAY_NAMES["sun"]>> :> StaleJob)}

RebuildInit ==
    /\ pc = "rebuild"
    /\ file \in RebuildFiles
    /\ jobs \in JobsBefore
    /\ arg = jobs
    /\ ret = <<>>
    /\ fsm = [u \in UserIds |-> NoSession]
    /\ event = NoEvent
    /\ reply = NoReply
    /\ removed = <<>>

\* One call of setup_scheduler(); ret collects what each call gave.
Rebuild ==
    /\ pc = "rebuild"
    /\ Len(ret) < 2
    /\ LET r == setup_scheduler(file, jobs)
       IN  /\ jobs' = r.jobs
           /\ ret' = Append(ret, r)
    /\ UNCHANGED <<pc, file, fsm, event, reply, removed, arg>>

RebuildNext == Rebuild

RebuildSpec == RebuildInit /\ [][RebuildNext]_vars

---------------------------------------------------------------------------
(* Properties *)

\* What a step was, read from the update it delivered and the bot's answer
Created(r) == r.text # <<>> /\ Head(r.text) = "created"

Deleted(r) == r.text = <<"deleted">>

RecordsOf(f, id) == SelectSeq(Records(f), LAMBDA s : s["id"] = id)

\* C1: once main() has rebuilt the scheduler, and after every commit and
\* removal since, the ids of the scheduler's jobs are exactly poll_<id> and
\* rem_<id> for the ids of the records in the Store.
C1_JobIdsMatchStore ==
    pc = "running" =>
        DOMAIN jobs = {<<"poll">> \o id : id \in Ids(file)}
                          \cup {<<"rem">> \o id : id \in Ids(file)}

\* A commit has left two records in the Store and their four jobs.
C1_Witness ==
    /\ pc = "running"
    /\ Created(reply)
    /\ Cardinality(Ids(file)) = 2
    /\ Cardinality(DOMAIN jobs) = 4

\* C2: started on a Store without a repeated id, the Store never holds two
\* records with the same id, whatever is committed and removed.
C2_NoRepeatedId ==
    \A i, j \in DOMAIN Records(file) :
        Records(file)[i]["id"] = Records(file)[j]["id"] => i = j

\* A commit under an id the Store already held, next to another record.
C2_Witness ==
    /\ Created(reply)
    /\ removed # <<>>
    /\ Len(Records(file)) = 2

\* C3: for every hour h in 0..23 and minute m in 0..59 calculate_reminder
\* returns (h, m-5) when m >= 5 and ((h-1) mod 24, (m-5) mod 60) when m < 5,
\* so (0,2) gives (23,57) and (18,0) gives (17,55); the hour it returns is
\* in 0..23 and the minute in 0..59.
C3_FiveMinutesBefore ==
    pc = "return" =>
        LET h == arg[1]
            m == arg[2]
        IN  /\ m >= 5 => ret = <<h, m - 5>>
            /\ m < 5 => ret = <<IF h = 0 THEN 23 ELSE h - 1, m + 55>>
            /\ arg = <<0, 2>> => ret = <<23, 57>>
            /\ arg = <<18, 0>> => ret = <<17, 55>>
            /\ ret[1] \in 0..23
            /\ ret[2] \in 0..59

\* The reminder of 00:02 has been computed: 23:57.
C3_Witness == pc = "return" /\ arg = <<0, 2>> /\ ret = <<23, 57>>

\* C4: after update_config(id, record) the Store read back holds exactly
\* one record of that id, equal in every field to the record passed in;
\* after update_config(id, None) it holds no record of that id.
C4_RoundTrip ==
    [][/\ Created(reply') =>
              LET data   == fsm[event'.from].data
                  id     == <<data["send_day"], data["poll_day"]>>
                  record == NewRecord(id, data, ParseOptions(event'.text))
              IN  RecordsOf(file', id) = <<record>>
       /\ Deleted(reply') => RecordsOf(file', Tail(event'.data)) = <<>>]_vars

\* A removal has taken every record of a repeated id out of the Store and
\* left the other record in.
C4_Witness ==
    /\ Deleted(reply)
    /\ Len(removed) = 2
    /\ Len(Records(file)) = 1

\* The number of pieces of text between ";" that hold something other than
\* spaces: the positions of the first such character of a piece.
NonBlankPieces(text) ==
    Cardinality({i \in DOMAIN text :
        /\ text[i] \notin {";", " "}
        /\ \A j \in 1..(i - 1) :
               (\A k \in j..(i - 1) : text[k] # ";") => text[j] = " "})

\* The user u is asked for the options and sends a text.
OptionsSent(u) ==
    /\ pc = "running"
    /\ fsm[u].state = "waiting_for_options"
    /\ event'.type = "message"
    /\ event'.from = u
    /\ event'.text \in Texts

\* C5: while the dialog waits for the options, a text with fewer than two
\* non-blank pieces between ";" changes nothing: the dialog still waits for
\* the options with the same session data, the Store and the jobs are as
\* they were, and the bot asks again.
C5_TooFewOptionsSelfLoop ==
    [][\A u \in UserIds :
           OptionsSent(u) /\ NonBlankPieces(event'.text) < 2 =>
               /\ fsm' = fsm
               /\ file' = file
               /\ jobs' = jobs
               /\ reply' = Answer(<<"two_options_required">>, {})]_vars

\* A text of delimiters only has been refused and the dialog still waits.
C5_Witness ==
    /\ event.type = "message"
    /\ event.text = <<" ", ";", " ">>
    /\ reply = Answer(<<"two_options_required">>, {})
    /\ fsm[event.from].state = "waiting_for_options"

\* The options of the texts of the model that hold two pieces or more.
ExpectedOptions ==
    (<<"a", ";", " ", "b", ";", "a", " ">>
        :> << <<"a">>, <<"b">>, <<"a">> >>)

\* C6: while the dialog waits for the options, a text with two non-blank
\* pieces or more commits: the Store then holds a record under the id
\* <send_day>_<poll_day> whose send_day, poll_day, hour, minute and
\* poll_title are those of the session and whose options are the trimmed
\* pieces in the order of the text, repeated ones kept.
C6_CommitStoresSession ==
    [][\A u \in UserIds :
           OptionsSent(u) /\ NonBlankPieces(event'.text) >= 2 =>
               LET data == fsm[u].data
                   id   == <<data["send_day"], data["poll_day"]>>
               IN  /\ event'.text \in DOMAIN ExpectedOptions
                   /\ \E i \in DOMAIN Records(file') :
                          LET s == Records(file')[i]
                          IN  /\ s["id"] = id
                              /\ \A k \in {"send_day", "poll_day", "hour",
                                           "minute", "poll_title"} :
                                     s[k] = data[k]
                              /\ s["options"] = ExpectedOptions[event'.text]]_vars

\* "a; b;a " has been committed for Monday at 10:00 under the title ";".
C6_Witness ==
    /\ Created(reply)
    /\ event.text = <<"a", ";", " ", "b", ";", "a", " ">>
    /\ \E i \in DOMAIN Records(file) :
           /\ Records(file)[i]["id"] = <<"mon", DAY_NAMES["mon"]>>
           /\ Records(file)[i]["hour"] = 10
           /\ Records(file)[i]["minute"] = 0
           /\ Records(file)[i]["poll_title"] = <<";">>
           /\ Records(file)[i]["options"] = << <<"a">>, <<"b">>, <<"a">> >>

\* Five minutes before hour:minute
FiveBefore(hour, minute) ==
    IF minute >= 5 THEN <<hour, minute - 5>>
    ELSE <<IF hour = 0 THEN 23 ELSE hour - 1, minute + 55>>

\* C7: a dialog completed for a (send_day, poll_day) pair the Store already
\* holds a record of leaves exactly one record under that id, with the
\* contents of this completion, and one poll job and one reminder job for
\* it, at this completion's time and five minutes before.
C7_SecondCompletionWins ==
    [][\A u \in UserIds :
           LET data == fsm[u].data
               id   == <<data["send_day"], data["poll_day"]>>
           IN  (/\ OptionsSent(u)
                /\ Created(reply')
                /\ id \in Ids(file)) =>
                   /\ Len(RecordsOf(file', id)) = 1
                   /\ \A k \in DOMAIN data :
                          RecordsOf(file', id)[1][k] = data[k]
                   /\ Cardinality({j \in DOMAIN jobs' : Tail(j) = id}) = 2
                   /\ jobs'[<<"poll">> \o id].func = "send_squash_poll"
                   /\ jobs'[<<"poll">> \o id].day_of_week = data["send_day"]
                   /\ <<jobs'[<<"poll">> \o id].hour,
                        jobs'[<<"poll">> \o id].minute>>
                          = <<data["hour"], data["minute"]>>
                   /\ jobs'[<<"poll">> \o id].args[3] = data["poll_title"]
                   /\ jobs'[<<"rem">> \o id].func = "send_reminder"
                   /\ <<jobs'[<<"rem">> \o id].hour,
                        jobs'[<<"rem">> \o id].minute>>
                          = FiveBefore(data["hour"], data["minute"])]_vars

\* The dialog has been completed a second time for the same pair, with
\* another title than the first time, and the one record of the pair
\* carries the second title.
C7_Witness ==
    /\ Created(reply)
    /\ Len(removed) = 1
    /\ removed[1]["poll_title"] = <<";">>
    /\ Len(RecordsOf(file, removed[1]["id"])) = 1
    /\ RecordsOf(file, removed[1]["id"])[1]["poll_title"]
           = <<"a", ";", " ", "b", ";", "a">>
    /\ jobs[<<"poll">> \o removed[1]["id"]].args[3]
           = <<"a", ";", " ", "b", ";", "a">>

\* C8: started on an empty Store, every record of the Store has a non-empty
\* id, a send_day among the seven day codes, an hour in 0..23, a minute in
\* 0..59 and two options or more.
C8_RecordsWellFormed ==
    \A i \in DOMAIN Records(file) :
        LET s == Records(file)[i]
        IN  /\ {"id", "send_day", "hour", "minute", "options"}
                   \subseteq DOMAIN s
            /\ s["id"] # <<>>
            /\ \E d \in DOMAIN DayCodes : s["send_day"] = DayCodes[d]
            /\ s["hour"] \in 0..23
            /\ s["minute"] \in 0..59
            /\ Len(s["options"]) >= 2

\* The Store that was empty when the process started holds a record.
C8_Witness ==
    /\ pc = "running"
    /\ Records(file) # <<>>
    /\ Created(reply)
    /\ removed = <<>>

\* C9: an update reaches a handler only if its sender's user id is in the
\* allow-list; to any other update the bot gives nothing but the denial (an
\* update no handler takes is dropped unanswered).  The code lets an update
\* without a sender through to the handlers.
C9_OnlyAllowedSendersReachHandlers ==
    (event # NoEvent /\ event.from \notin ALLOWED_USER_IDS) =>
        reply \in {Denial(event), NoReply}

\* C10: when schedule_config.json is missing or holds invalid content,
\* load_config() returns an empty collection without raising and the rebuild
\* of main() leaves the scheduler without jobs, without raising.  The code
\* raises on bytes that are not UTF-8 and on JSON that is not a config.
C10_UnusableStoreLoadsEmpty ==
    (pc # "boot" /\ file \in {FileMissing, FileNotJson, FileNotUtf8,
                             FileNoSchedules}) =>
        /\ load_config(file) = [exc |-> "", cfg |-> EMPTY_CONFIG]
        /\ pc = "running"
        /\ jobs = <<>>

\* C11: setup_scheduler run twice in a row on the same file gives what one
\* run gives, whatever jobs the scheduler held before: the same outcome,
\* the same job ids and under each id the same function, day of week, hour,
\* minute and arguments.
C11_RebuildIdempotent ==
    Len(ret) = 2 =>
        /\ ret[2].exc = ret[1].exc
        /\ DOMAIN ret[2].jobs = DOMAIN ret[1].jobs
        /\ \A j \in DOMAIN ret[1].jobs : ret[2].jobs[j] = ret[1].jobs[j]
        /\ jobs = ret[1].jobs

\* Two rebuilds have run on a scheduler that held a job of another record,
\* and the scheduler holds the four jobs of the file.
C11_Witness ==
    /\ pc = "rebuild"
    /\ Len(ret) = 2
    /\ arg # <<>>
    /\ DOMAIN arg \cap DOMAIN jobs = {}
    /\ Cardinality(DOMAIN jobs) = 4

\* C12: the poll job fired with options that are absent, empty or a single
\* entry sends no poll, logs a warning and returns normally; fired with two
\* options or more it sends exactly one poll, with these options, whose
\* question is the title when there is one and the generated question of
\* the day otherwise.
C12_PollNeedsTwoOptions ==
    pc = "fired" =>
        /\ Len(arg[2]) <= 1 =>
               ret.exc = "" /\ ret.polls = <<>> /\ ret.warnings = 1
        /\ Len(arg[2]) >= 2 =>
               /\ Len(ret.polls) = 1
               /\ ret.warnings = 0
               /\ ret.polls[1].options = arg[2]
               /\ arg[3] # <<>> => ret.polls[1].question = arg[3]
               /\ arg[3] = <<>> =>
                      ret.polls[1].question = <<"squash_on", arg[1], "?">>

\* A job with a single option has fired and sent nothing.
C12_Witness ==
    /\ pc = "fired"
    /\ Len(arg[2]) = 1
    /\ ret = [exc |-> "", warnings |-> 1, polls |-> <<>>]

\* The record of id that counts for the scheduler: the last one of the file
LastRecord(f, id) == RecordsOf(f, id)[Len(RecordsOf(f, id))]

\* C13: update_config and its setup_scheduler run between two awaits of the
\* handler, so at every point of the event loop where another handler or a
\* job callback can run the jobs agree with the Store: they are the poll
\* and reminder jobs of the ids of the file, at the day and time of their
\* records.
C13_NoHalfRebuiltJobs ==
    /\ DOMAIN jobs = {<<"poll">> \o id : id \in Ids(file)}
                         \cup {<<"rem">> \o id : id \in Ids(file)}
    /\ \A id \in Ids(file) :
           LET s    == LastRecord(file, id)
               poll == jobs[<<"poll">> \o id]
               rem  == jobs[<<"rem">> \o id]
           IN  /\ <<poll.day_of_week, poll.hour, poll.minute>>
                      = <<s["send_day"], s["hour"], s["minute"]>>
               /\ poll.args[1] = s["poll_day"]
               /\ <<rem.day_of_week, rem.hour, rem.minute>>
                      = <<s["send_day"]>>
                            \o FiveBefore(s["hour"], s["minute"])

\* Both handlers have written the Store and wait at their next await, the
\* removal after the commit, and a job has fired in between.
C13_Witness ==
    /\ pc.options_input = "clear"
    /\ pc.delete_schedule = "edit_text"
    /\ removed # <<>>
    /\ Len(Records(file)) = 1
    /\ ret # <<>>
    /\ ret.seen = "job"
    /\ ret.id \in DOMAIN jobs

\* The step of the dialog a message of the bot shows: 1 SelectSendDay,
\* 2 SelectPollDay, 3 SelectHour, 4 SelectMinute, 5 AwaitingTitle,
\* 6 AwaitingOptions; 0 for any other message.
Stage(r) ==
    IF r.text = <<>> THEN 0
    ELSE CASE Head(r.text) = "SELECT_SEND_DAY_TEXT" -> 1
           [] Head(r.text) = "send_day_selected"    -> 2
           [] Head(r.text) = "choose_hour"          -> 3
           [] Head(r.text) = "hour_selected"        ->
                  IF r.text[4] = "None" THEN 3 ELSE 4
           [] Head(r.text) \in {"enter_title", "enter_title_again"} -> 5
           [] Head(r.text) = "enter_options"        -> 6
           [] OTHER                                 -> 0

\* An allowed user presses the back button of the prompt the bot has just
\* shown.
BackPressed ==
    /\ pc = "running"
    /\ event'.type = "callback"
    /\ event'.from \in ALLOWED_USER_IDS
    /\ event'.data \in reply.kb
    /\ Head(event'.data) = "back"

\* The back button of a prompt of one of the stages shows the prompt of the
\* stage before, with the choices made before that stage.
BackLeadsToPredecessor(stages) ==
    (BackPressed /\ Stage(reply) \in stages) =>
        /\ Stage(reply') = Stage(reply) - 1
        /\ reply'.via = "edit"
        /\ Stage(reply) \in {3, 4} => reply'.text[2] = reply.text[2]
        /\ Stage(reply) = 4 => reply'.text[3] = reply.text[3]
        /\ (Stage(reply) = 5 /\ Head(reply.text) = "enter_title") =>
               SubSeq(reply'.text, 2, 4) = SubSeq(reply.text, 2, 4)
        /\ Stage(reply) = 6 =>
               /\ fsm'[event'.from].state = "waiting_for_title"
               /\ \A k \in {"send_day", "poll_day", "hour", "minute",
                            "poll_title"} :
                      fsm'[event'.from].data[k] = fsm[event'.from].data[k]

\* C14: in every dialog state but Committed the back button leads to the
\* state before it in SelectSendDay, SelectPollDay, SelectHour,
\* SelectMinute, AwaitingTitle, AwaitingOptions, keeping the choices made
\* before that state.  The code sends the back button of the minute
\* keyboard to SelectPollDay.
C14_BackLeadsToPredecessor == [][BackLeadsToPredecessor(2..6)]_vars

\* C15: whatever takes an allowed user back to the first prompt (/set_days,
\* the back_send button, the fallback of back_title_input) discards the
\* dialog session: its state is none and its data empty afterwards, so no
\* later text is taken for the title or the options of the earlier run.
\* The code leaves the session as it is on /set_days and on back_send.
C15_FirstPromptDiscardsSession ==
    [][(/\ pc = "running"
        /\ event'.from \in ALLOWED_USER_IDS
        /\ Stage(reply') = 1) =>
           fsm'[event'.from] = NoSession]_vars

\* C16: a commit ends the session (state none, data empty), and from an
\* ended session no message and no back button of an earlier prompt changes
\* the Store or the jobs or brings the session back to the title or the
\* options: only a minute button (choose_time) starts a session again.
C16_CommittedSessionEnded ==
    [][\A u \in ALLOWED_USER_IDS :
           /\ (Created(reply') /\ event'.from = u) => fsm'[u] = NoSession
           /\ (/\ pc = "running"
               /\ fsm[u] = NoSession
               /\ event'.from = u
               /\ \/ event'.type = "message"
                  \/ event'.type = "callback" /\ Head(event'.data) = "back") =>
                  /\ fsm'[u] = NoSession
                  /\ file' = file
                  /\ jobs' = jobs]_vars

\* After a commit of the dialog the back button of the options prompt has
\* been pressed: the first prompt is shown and the session is still ended.
C16_Witness ==
    /\ event.type = "callback"
    /\ event.data \in kb_back_to_title
    /\ event.from \in ALLOWED_USER_IDS
    /\ Stage(reply) = 1
    /\ fsm[event.from] = NoSession
    /\ \E i \in DOMAIN Records(file) :
           /\ "poll_title" \in DOMAIN Records(file)[i]
           /\ Records(file)[i]["poll_title"] = <<";">>

\* A text without the spaces at its two ends
Trimmed(text) ==
    LET inked == {i \in DOMAIN text : text[i] # " "}
    IN  IF inked = {} THEN <<>>
        ELSE SubSeq(text,
                    CHOOSE i \in inked : \A j \in inked : i <= j,
                    CHOOSE i \in inked : \A j \in inked : j <= i)

\* The user u is asked for the title and sends a text.
TitleSent(u) ==
    /\ pc = "running"
    /\ fsm[u].state = "waiting_for_title"
    /\ event'.type = "message"
    /\ event'.from = u
    /\ event'.text \in Texts

\* C17: while the dialog waits for the title, a text that trimmed is empty
\* or is "-" changes nothing: the dialog still waits for the title, and the
\* session data (a poll_title stored before included), the Store and the
\* jobs are as they were.  Any other text is stored trimmed as poll_title,
\* the rest of the data kept, and the dialog waits for the options; the
\* Store and the jobs are not touched.
C17_TitleValidated ==
    [][\A u \in UserIds :
           TitleSent(u) =>
               /\ file' = file
               /\ jobs' = jobs
               /\ Trimmed(event'.text) \in {<<>>, <<"-">>} =>
                      /\ fsm' = fsm
                      /\ reply' = Answer(<<"title_required">>, {})
               /\ Trimmed(event'.text) \notin {<<>>, <<"-">>} =>
                      /\ fsm'[u].state = "waiting_for_options"
                      /\ DOMAIN fsm'[u].data
                             = DOMAIN fsm[u].data \cup {"poll_title"}
                      /\ fsm'[u].data["poll_title"] = Trimmed(event'.text)
                      /\ \A k \in DOMAIN fsm[u].data \ {"poll_title"} :
                             fsm'[u].data[k] = fsm[u].data[k]]_vars

\* Back at the title with a title already stored, " - " has been refused
\* and the stored title is still there.
C17_Witness ==
    /\ event.type = "message"
    /\ event.text = <<" ", "-", " ">>
    /\ reply = Answer(<<"title_required">>, {})
    /\ fsm[event.from].state = "waiting_for_title"
    /\ "poll_title" \in DOMAIN fsm[event.from].data
    /\ fsm[event.from].data["poll_title"] = <<";">>

\* C18: the reminder job of every record is on the day of week of its poll
\* job, the record's send_day, five minutes before the poll's time; for a
\* poll in the first five minutes of hour 0 that is hour 23 of the same
\* day of week, not of the day before.
C18_ReminderSameDay ==
    pc = "running" =>
        \A id \in Ids(file) :
            LET s    == LastRecord(file, id)
                poll == jobs[<<"poll">> \o id]
                rem  == jobs[<<"rem">> \o id]
            IN  /\ rem.func = "send_reminder"
                /\ rem.day_of_week = s["send_day"]
                /\ rem.day_of_week = poll.day_of_week
                /\ <<rem.hour, rem.minute>>
                       = FiveBefore(poll.hour, poll.minute)
                /\ (poll.hour = 0 /\ poll.minute < 5) => rem.hour = 23

\* The poll of 00:02 on Tuesday has its reminder at 23:57 on Tuesday, and
\* a poll of the dialog stands next to it.
C18_Witness ==
    /\ pc = "running"
    /\ Cardinality(Ids(file)) = 2
    /\ \E id \in Ids(file) :
           /\ jobs[<<"poll">> \o id].hour = 0
           /\ jobs[<<"poll">> \o id].minute = 2
           /\ jobs[<<"poll">> \o id].day_of_week = "tue"
           /\ jobs[<<"rem">> \o id].hour = 23
           /\ jobs[<<"rem">> \o id].minute = 57
           /\ jobs[<<"rem">> \o id].day_of_week = "tue"

\* C19: the record a commit writes to the Store holds the id, send_day,
\* poll_day, hour, minute, poll_title and options and nothing of the
\* session besides, in particular not edit_chat_id and edit_message_id.
\* The code writes the whole session data into the record.
C19_RecordHasNoSessionFields ==
    [][Created(reply') =>
           LET data == fsm[event'.from].data
               id   == <<data["send_day"], data["poll_day"]>>
           IN  \A i \in DOMAIN RecordsOf(file', id) :
                   DOMAIN RecordsOf(file', id)[i]
                       = {"id", "send_day", "poll_day", "hour", "minute",
                          "poll_title", "options"}]_vars

\* The records of f under other ids than id, in their order
OtherRecords(f, id) == SelectSeq(Records(f), LAMBDA s : s["id"] # id)

\* update_config(id, ...) has left the records and the jobs of the other
\* ids as they were.
FrameOf(id) ==
    /\ OtherRecords(file', id) = OtherRecords(file, id)
    /\ \A j \in DOMAIN jobs \cup DOMAIN jobs' :
           Tail(j) # id =>
               /\ j \in DOMAIN jobs \cap DOMAIN jobs'
               /\ jobs'[j] = jobs[j]

\* C20: a commit or a removal under an id leaves the records of every
\* other id unchanged and in their order, and their poll and reminder jobs
\* with the same ids, times and arguments; the removal of an id the Store
\* does not hold leaves the records and the jobs unchanged.
C20_UpdateFrame ==
    [][/\ Created(reply') =>
              FrameOf(<<fsm[event'.from].data["send_day"],
                        fsm[event'.from].data["poll_day"]>>)
       /\ Deleted(reply') =>
              /\ FrameOf(Tail(event'.data))
              /\ Tail(event'.data) \notin Ids(file) =>
                     Records(file') = Records(file) /\ jobs' = jobs]_vars

\* An id the Store does not hold has been removed; the record of the other
\* id and its two jobs are there.
C20_Witness ==
    /\ Deleted(reply)
    /\ removed = <<>>
    /\ Tail(event.data) \notin Ids(file)
    /\ Records(file) = <<LegacyRecord>>
    /\ Cardinality(DOMAIN jobs) = 2

===========================================================================
